---- MODULE Spec2Model ----
(***************************************************************************)
(* Model of trashion_render.py: the background monitoring loop and the     *)
(* Flask request handlers, both working on the two snapshot files          *)
(* inventory_data.json (current) and inventory_previous.json (previous).   *)
(* Every file system call and every browser or webhook call is one step,   *)
(* so the interleavings of the monitor thread with a request thread are    *)
(* the ones the program has: the code takes no lock anywhere.              *)
(***************************************************************************)
EXTENDS Integers, Sequences, FiniteSets, TLC

\* ---------------------------------------------------------------- bounds
NumIds == 1          \* size of the identifier universe offered by the site

\* ------------------------------------------------------ program constants
BUSINESS_START == 12
BUSINESS_END == 19
FRESH_SECONDS == 300
max_clicks == 20

\* the four-digit identifiers the site can list
Ids == 1001 .. (1000 + NumIds)

\* hours of the day the clock is observed at: one outside the window and
\* one inside it
Hours == {BUSINESS_START - 1, BUSINESS_START}

\* ages of DATA_FILE, in seconds, a request can find: just written, the
\* spec's 120 s, and the threshold itself
Ages == {0, 120, FRESH_SECONDS}

\* every hour of the day, and the first and the last minute of an hour
DayHours == 0 .. 23
Minutes == {0, 59}

Procs == {"monitor", "api"}
Kinds == {"inventory", "force", "status"}

VARIABLES
  hour,      \* datetime.now(finland_tz).hour
  minute,    \* datetime.now(finland_tz).minute
  enabled,   \* ENABLE_NOTIFICATIONS
  cur,       \* content of DATA_FILE
  prev,      \* content of PREVIOUS_DATA_FILE
  pc,        \* position of each thread
  kind,      \* the endpoint the request thread serves
  result,    \* local `result` of monitoring_loop / get_inventory / force_check
  prevIds,   \* local `prev_ids` of check_sold_items
  sold,      \* local `sold`
  data,      \* local `data` of monitoring_loop's promote step
  age,       \* local `age` of get_inventory (-1: not computed)
  notified,  \* calls of notify_discord made in the running cycle or request
  posted,    \* requests.post attempts made in the running cycle or request
  message,   \* identifiers listed in the message given to notify_discord
  fetched,   \* whether the running cycle or request launched the browser
  outcome,   \* what became of requests.post in notify_discord: "none" (not
             \* called), "204", "status" (another status), "exception"
  readFailed,\* threads whose check_sold_items caught a failed load (line 178)
  loop,      \* position inside the pagination loop of a browser session
  clicks,    \* local `clicks` of scrape_full_inventory
  activated, \* load_more.click() calls that returned
  resp,      \* the HTTP response of the request thread
  statFresh, \* whether DATA_FILE held a complete snapshot younger than
             \* FRESH_SECONDS when get_inventory looked at it
  lastDone,  \* the snapshot written to DATA_FILE by the latest completed cycle
             \* or request whose scrape succeeded
  older,     \* of two scrapes that both hold a result not yet written, the
             \* thread that left the browser first ("none" otherwise)
  stale,     \* threads whose unwritten result is older than the one on disk
  tracking   \* which of the history variables this run records: "none",
             \* "done" (lastDone), "order" (older, stale) or "fail" (outcome,
             \* readFailed)

vars == <<hour, minute, enabled, cur, prev, pc, kind, result, prevIds,
          sold, data, age, notified, posted, message, fetched, outcome,
          readFailed, loop, clicks, activated, resp,
          statFresh, lastDone, older, stale, tracking>>

hist == <<lastDone, older, stale, tracking>>

\* the minute of the clock and the pagination loop's locals
aside == <<minute, loop, clicks, activated>>

\* ------------------------------------------------------------- data values
RECURSIVE SortedList(_)
SortedList(S) ==
  IF S = {} THEN <<>>
  ELSE LET m == CHOOSE x \in S : \A y \in S : x <= y
       IN <<m>> \o SortedList(S \ {m})

ToSet(s) == {s[i] : i \in 1 .. Len(s)}

\* a file: absent, opened for writing and not yet written ("torn"), or a snapshot
Absent == [state |-> "absent", ids |-> <<>>]
Torn == [state |-> "torn", ids |-> <<>>]
File(r) == [state |-> "ok", ids |-> r.ids]

NoResult == [success |-> FALSE, error |-> "", ids |-> <<>>,
             note |-> FALSE]
\* an empty cached payload where the failure value belongs
EmptyCachedData == [success |-> TRUE, error |-> "", ids |-> <<>>, note |-> TRUE]

\* line 64: the failure value of a scrape outside business hours with no file
NoCachedData == [success |-> FALSE, error |-> "No cached data available",
                 ids |-> <<>>, note |-> FALSE]
\* lines 138-142: the failure value of a browser session that raised
ScrapeError == [success |-> FALSE, error |-> "scrape error", ids |-> <<>>, note |-> FALSE]
ScrapeResult(S) == [success |-> TRUE, error |-> "", ids |-> SortedList(S),
                    note |-> FALSE]
CachedResult(f) == [success |-> TRUE, error |-> "", ids |-> f.ids,
                    note |-> TRUE]

NoResp == [status |-> 0, success |-> FALSE, error |-> "", ids |-> <<>>,
           from_cache |-> FALSE, cache_age |-> -1,
           note |-> FALSE, sold |-> <<>>, notification_sent |-> FALSE]
Error500 == [NoResp EXCEPT !.status = 500, !.error = "exception"]
ResultBody(r) == [NoResp EXCEPT !.status = 200, !.success = r.success,
                  !.error = r.error, !.ids = r.ids, !.note = r.note]

\* the window with its end hour inside
ClosedHours == BUSINESS_START <= hour /\ hour <= BUSINESS_END

\* line 47: only the hour of the local time is compared
is_business_hours == BUSINESS_START <= hour /\ hour < BUSINESS_END

\* ------------------------------------------------- decisions of the code
\* the subtraction with its operands exchanged
SoldIdsReversed(prev_ids, curr_ids) == curr_ids \ prev_ids

\* check_sold_items: sold_ids = prev_ids - curr_ids
SoldIds(prev_ids, curr_ids) == prev_ids \ curr_ids

\* the notifier called whatever the diff found
AlwaysNotify(s) == TRUE

\* `if sold:` before notify_discord, in monitoring_loop and in force_check
ShouldNotify(s) == s # <<>>

\* the message without the last identifier
AllButLast(s) == SubSeq(s, 1, Len(s) - 1)

\* "Sold IDs: " + ', '.join(sold): the identifiers the message lists
MessageIds(s) == s

\* the flag set whatever the diff found
AlwaysSent(s) == TRUE

\* "notification_sent": bool(sold)
NotificationSent(s) == s # <<>>

\* the test of the result turned around
FailedGoesOn(r) == ~r.success

\* the cycle going on whatever the scrape returned
AlwaysSucceeded(r) == TRUE

\* `if result.get("success"):` in monitoring_loop
Succeeded(r) == r.success

\* `if age < 300:` in get_inventory
IsFresh(a) == a < FRESH_SECONDS

\* where a thread continues when scrape_full_inventory returns
ScrapeReturn(p) ==
  IF p = "monitor" THEN "m_check"
  ELSE IF kind = "inventory" THEN "i_return" ELSE "d_prev"

\* an exception of requests.post leaving notify_discord
NotifyRaises(p) ==
  IF outcome'[p] = "exception"
  THEN (IF p = "monitor" THEN "m_backoff" ELSE "done")
  ELSE (IF p = "monitor" THEN "p_read" ELSE "f_return")

\* where a thread continues after the notification step
NotifyReturn(p) == IF p = "monitor" THEN "p_read" ELSE "f_return"

\* an exception that ends the thread it is raised in
RaiseKills(p) ==
  /\ pc' = [pc EXCEPT ![p] = IF p = "monitor" THEN "dead" ELSE "done"]
  /\ resp' = IF p = "api" THEN Error500 ELSE resp

\* an exception leaves the cycle (monitoring_loop's except) or the request
\* (the handler's except, which answers 500)
Raise(p) ==
  /\ pc' = [pc EXCEPT ![p] = IF p = "monitor" THEN "m_backoff" ELSE "done"]
  /\ resp' = IF p = "api" THEN Error500 ELSE resp

\* ------------------------------------------------------------------ Init
\* everything but the clock
Boot ==
  /\ enabled \in BOOLEAN
  /\ cur = Absent
  /\ prev = Absent
  /\ pc = [p \in Procs |-> IF p = "monitor" THEN "loop" ELSE "idle"]
  /\ kind = "inventory"
  /\ result = [p \in Procs |-> NoResult]
  /\ prevIds = [p \in Procs |-> {}]
  /\ sold = [p \in Procs |-> <<>>]
  /\ data = Absent
  /\ age = -1
  /\ notified = [p \in Procs |-> 0]
  /\ posted = [p \in Procs |-> 0]
  /\ message = [p \in Procs |-> <<>>]
  /\ fetched = [p \in Procs |-> FALSE]
  /\ outcome = [p \in Procs |-> "none"]
  /\ readFailed = {}
  /\ resp = NoResp
  /\ statFresh = FALSE
  /\ lastDone = Absent
  /\ older = "none"
  /\ stale = {}

\* no browser session is inside its pagination loop
NoPage ==
  /\ loop = "idle"
  /\ clicks = 0
  /\ activated = 0

Start ==
  /\ hour \in Hours
  /\ minute = 0
  /\ Boot
  /\ NoPage

\* the program right after start, the store empty
Init == Start /\ tracking = "none"
InitDone == Start /\ tracking = "done"
InitOrder == Start /\ tracking = "order"
InitFail == Start /\ tracking = "fail"

\* the program started at any time of the day
InitGate ==
  /\ hour \in DayHours
  /\ minute \in Minutes
  /\ Boot
  /\ NoPage
  /\ tracking = "none"

\* ----------------------------------------------------------- environment
NextHour(h) == IF h = BUSINESS_START THEN BUSINESS_START - 1 ELSE BUSINESS_START

\* the wall clock reaches the next observed hour
AdvanceHour ==
  /\ hour' = NextHour(hour)
  /\ UNCHANGED <<enabled, outcome, readFailed, cur, prev, pc, kind, result, prevIds,
                 sold, data, age, notified, posted, message, fetched, resp,
                 statFresh>>
  /\ UNCHANGED hist
  /\ UNCHANGED aside

\* the wall clock moves on to the next observed minute: from hh:00 to hh:59,
\* from hh:59 to the next hour, from 23:59 to 00:00
Tick ==
  /\ IF minute = 0
     THEN minute' = 59 /\ hour' = hour
     ELSE minute' = 0 /\ hour' = (hour + 1) % 24
  /\ UNCHANGED <<enabled, cur, prev, pc, kind, result, prevIds,
                 sold, data, age, notified, posted, message, fetched, resp,
                 outcome, readFailed, statFresh, loop, clicks, activated>>
  /\ UNCHANGED hist

\* ------------------------------------------------ scrape_full_inventory
\* thread p holds a scrape result it has not yet written to DATA_FILE
Unwritten(p) == pc[p] \in {"s_open", "s_dump"}

\* the cycle or request of p has scraped the site and written the result
ScrapedAndWrote(p) == fetched[p] /\ result[p].success /\ ~result[p].note

\* line 57: the time gate
SGate(p) ==
  /\ pc[p] = "s_gate"
  /\ pc' = [pc EXCEPT ![p] = IF is_business_hours THEN "s_fetch" ELSE "s_cached"]
  /\ UNCHANGED <<hour, enabled, outcome, readFailed, cur, prev, kind, result, prevIds,
                 sold, data, age, notified, posted, message, fetched, resp,
                 statFresh>>
  /\ UNCHANGED hist
  /\ UNCHANGED aside

\* lines 59-64: outside business hours the last snapshot stands in for a scrape
SCached(p) ==
  /\ pc[p] = "s_cached"
  /\ IF cur.state = "torn"
     THEN /\ Raise(p)
          /\ UNCHANGED result
     ELSE /\ result' = [result EXCEPT ![p] =
                          IF cur.state = "absent" THEN NoCachedData
                          ELSE CachedResult(cur)]
          /\ pc' = [pc EXCEPT ![p] = ScrapeReturn(p)]
          /\ UNCHANGED resp
  /\ UNCHANGED <<hour, enabled, outcome, readFailed, cur, prev, kind, prevIds,
                 sold, data, age, notified, posted, message, fetched,
                 statFresh>>
  /\ UNCHANGED hist
  /\ UNCHANGED aside

\* lines 66-125 and 138-142: the browser session; it fails, or yields the
\* identifiers the site lists and the result stamped with the time
SFetch(p) ==
  /\ pc[p] = "s_fetch"
  /\ fetched' = [fetched EXCEPT ![p] = TRUE]
  /\ \/ /\ result' = [result EXCEPT ![p] = ScrapeError]
        /\ pc' = [pc EXCEPT ![p] = ScrapeReturn(p)]
        /\ UNCHANGED <<older, stale>>
     \/ /\ \E S \in SUBSET Ids :
             result' = [result EXCEPT ![p] = ScrapeResult(S)]
        /\ pc' = [pc EXCEPT ![p] = "s_open"]
        /\ older' = IF tracking = "order" /\ \E q \in Procs \ {p} : Unwritten(q)
                    THEN CHOOSE q \in Procs \ {p} : Unwritten(q)
                    ELSE "none"
        /\ stale' = stale \ {p}
  /\ UNCHANGED <<lastDone, tracking>>
  /\ UNCHANGED aside
  /\ UNCHANGED <<hour, enabled, outcome, readFailed, cur, prev, kind, prevIds,
                 sold, data, age, notified, posted, message, resp,
                 statFresh>>

\* ---------------------------------------------------- the pagination loop
\* the loop that never leaves by its own test
LoopForever(c) == TRUE

\* line 81: while clicks < max_clicks
LoopContinues(c) == c < max_clicks

\* lines 76-78: the browser session of thread p reaches the loop
PEnter(p) ==
  /\ pc[p] = "s_fetch"
  /\ loop = "idle"
  /\ loop' = "test"
  /\ clicks' = 0
  /\ activated' = 0
  /\ UNCHANGED <<hour, minute, enabled, cur, prev, pc, kind, result, prevIds,
                 sold, data, age, notified, posted, message, fetched, resp,
                 outcome, readFailed, statFresh>>
  /\ UNCHANGED hist

\* lines 81-90: the loop's test, then the identifiers of the page as it is;
\* page.content() can raise, which ends the session (line 138)
PTest ==
  /\ loop = "test"
  /\ IF LoopContinues(clicks)
     THEN loop' \in {"visible", "failed"}
     ELSE loop' = "final"
  /\ UNCHANGED <<hour, minute, enabled, cur, prev, pc, kind, result, prevIds,
                 sold, data, age, notified, posted, message, fetched, resp,
                 outcome, readFailed, statFresh, clicks, activated>>
  /\ UNCHANGED hist

\* lines 94-98 and 104-106: the control is visible, or it is not (break), or
\* looking for it raises (break)
PVisible ==
  /\ loop = "visible"
  /\ loop' \in {"click", "final"}
  /\ UNCHANGED <<hour, minute, enabled, cur, prev, pc, kind, result, prevIds,
                 sold, data, age, notified, posted, message, fetched, resp,
                 outcome, readFailed, statFresh, clicks, activated>>
  /\ UNCHANGED hist

\* lines 100-106: load_more.click() returns and clicks is incremented, or it
\* raises (break)
PClick ==
  /\ loop = "click"
  /\ \/ /\ activated' = activated + 1
        /\ clicks' = clicks + 1
        /\ loop' = "test"
     \/ /\ loop' = "final"
        /\ UNCHANGED <<clicks, activated>>
  /\ UNCHANGED <<hour, minute, enabled, cur, prev, pc, kind, result, prevIds,
                 sold, data, age, notified, posted, message, fetched, resp,
                 outcome, readFailed, statFresh>>
  /\ UNCHANGED hist

\* lines 108-125: the final extraction; the result reports "clicks": clicks
PFinal ==
  /\ loop = "final"
  /\ loop' = "closed"
  /\ UNCHANGED <<hour, minute, enabled, cur, prev, pc, kind, result, prevIds,
                 sold, data, age, notified, posted, message, fetched, resp,
                 outcome, readFailed, statFresh, clicks, activated>>
  /\ UNCHANGED hist

\* line 128: open(DATA_FILE, 'w') truncates the file
SOpen(p) ==
  /\ pc[p] = "s_open"
  /\ cur' = Torn
  /\ pc' = [pc EXCEPT ![p] = "s_dump"]
  /\ UNCHANGED <<hour, enabled, outcome, readFailed, prev, kind, result, prevIds,
                 sold, data, age, notified, posted, message, fetched, resp,
                 statFresh>>
  /\ UNCHANGED hist
  /\ UNCHANGED aside

\* lines 129-136: json.dump and close; the scrape returns its result
SDump(p) ==
  /\ pc[p] = "s_dump"
  /\ cur' = File(result[p])
  /\ pc' = [pc EXCEPT ![p] = ScrapeReturn(p)]
  /\ stale' = IF older \in Procs \ {p} THEN stale \cup {older} ELSE stale
  /\ older' = "none"
  /\ UNCHANGED <<lastDone, tracking>>
  /\ UNCHANGED aside
  /\ UNCHANGED <<hour, enabled, outcome, readFailed, prev, kind, result, prevIds,
                 sold, data, age, notified, posted, message, fetched, resp,
                 statFresh>>

\* ----------------------------------------------------- check_sold_items
\* lines 164-169: no previous file gives []; a failed load is swallowed
DPrev(p) ==
  /\ pc[p] = "d_prev"
  /\ IF prev.state = "ok"
     THEN /\ prevIds' = [prevIds EXCEPT ![p] = ToSet(prev.ids)]
          /\ pc' = [pc EXCEPT ![p] = "d_cur"]
          /\ UNCHANGED sold
     ELSE /\ sold' = [sold EXCEPT ![p] = <<>>]
          /\ pc' = [pc EXCEPT ![p] = "notify"]
          /\ UNCHANGED prevIds
  /\ readFailed' = IF prev.state = "torn" /\ tracking = "fail"
                    THEN readFailed \cup {p} ELSE readFailed
  /\ UNCHANGED <<hour, enabled, outcome, cur, prev, kind, result,
                 data, age, notified, posted, message, fetched, resp,
                 statFresh>>
  /\ UNCHANGED hist
  /\ UNCHANGED aside

\* lines 170-180: load the current file and subtract
DCur(p) ==
  /\ pc[p] = "d_cur"
  /\ sold' = [sold EXCEPT ![p] =
                IF cur.state = "ok"
                THEN SortedList(SoldIds(prevIds[p], ToSet(cur.ids)))
                ELSE <<>>]
  /\ readFailed' = IF cur.state # "ok" /\ tracking = "fail"
                    THEN readFailed \cup {p} ELSE readFailed
  /\ pc' = [pc EXCEPT ![p] = "notify"]
  /\ UNCHANGED <<hour, enabled, outcome, cur, prev, kind, result, prevIds,
                 data, age, notified, posted, message, fetched, resp,
                 statFresh>>
  /\ UNCHANGED hist
  /\ UNCHANGED aside

\* ---------------------------------------------------------- notify step
\* what requests.post can come to: status 204, another status, an exception
Outcomes == {"204", "status", "exception"}

\* lines 219-229 / 330-332 with notify_discord (144-160): the webhook's
\* answer, whatever it is, is only logged
Notify(p) ==
  /\ pc[p] = "notify"
  /\ IF ShouldNotify(sold[p])
     THEN /\ notified' = [notified EXCEPT ![p] = @ + 1]
          /\ message' = [message EXCEPT ![p] = MessageIds(sold[p])]
          /\ posted' = [posted EXCEPT ![p] = IF enabled THEN @ + 1 ELSE @]
          /\ IF enabled /\ tracking = "fail"
             THEN \E o \in Outcomes : outcome' = [outcome EXCEPT ![p] = o]
             ELSE UNCHANGED outcome
     ELSE UNCHANGED <<notified, message, posted, outcome>>
  /\ pc' = [pc EXCEPT ![p] = NotifyReturn(p)]
  /\ UNCHANGED <<hour, enabled, readFailed, cur, prev, kind, result, prevIds,
                 sold, data, age, fetched, resp, statFresh>>
  /\ UNCHANGED hist
  /\ UNCHANGED aside

\* ------------------------------------------------------ monitoring_loop
\* line 197: the gate at the top of the loop
MGate ==
  /\ pc["monitor"] = "loop"
  /\ pc' = [pc EXCEPT !["monitor"] =
              IF is_business_hours THEN "s_gate" ELSE "quiet_sleep"]
  /\ UNCHANGED <<hour, enabled, outcome, readFailed, cur, prev, kind, result, prevIds,
                 sold, data, age, notified, posted, message, fetched, resp,
                 statFresh>>
  /\ UNCHANGED hist
  /\ UNCHANGED aside

\* lines 198-210: sleep at most an hour, then look at the gate again
MQuietSleep ==
  /\ pc["monitor"] = "quiet_sleep"
  /\ pc' = [pc EXCEPT !["monitor"] = "loop"]
  /\ UNCHANGED <<hour, enabled, outcome, readFailed, cur, prev, kind, result, prevIds,
                 sold, data, age, notified, posted, message, fetched, resp,
                 statFresh>>
  /\ UNCHANGED hist
  /\ UNCHANGED aside

\* line 215: only a successful result is diffed and promoted
MCheck ==
  /\ pc["monitor"] = "m_check"
  /\ pc' = [pc EXCEPT !["monitor"] =
              IF Succeeded(result["monitor"]) THEN "d_prev" ELSE "m_sleep"]
  /\ UNCHANGED <<hour, enabled, outcome, readFailed, cur, prev, kind, result, prevIds,
                 sold, data, age, notified, posted, message, fetched, resp,
                 statFresh>>
  /\ UNCHANGED hist
  /\ UNCHANGED aside

\* lines 232-234: promote, first half: load DATA_FILE again
PRead ==
  /\ pc["monitor"] = "p_read"
  /\ IF cur.state = "torn"
     THEN /\ Raise("monitor")
          /\ UNCHANGED data
     ELSE /\ data' = IF cur.state = "ok" THEN cur ELSE data
          /\ pc' = [pc EXCEPT !["monitor"] =
                      IF cur.state = "ok" THEN "p_open" ELSE "m_sleep"]
          /\ UNCHANGED resp
  /\ UNCHANGED <<hour, enabled, outcome, readFailed, cur, prev, kind, result, prevIds,
                 sold, age, notified, posted, message, fetched,
                 statFresh>>
  /\ UNCHANGED hist
  /\ UNCHANGED aside

\* line 235: open(PREVIOUS_DATA_FILE, 'w') truncates the file
POpen ==
  /\ pc["monitor"] = "p_open"
  /\ prev' = Torn
  /\ pc' = [pc EXCEPT !["monitor"] = "p_dump"]
  /\ UNCHANGED <<hour, enabled, outcome, readFailed, cur, kind, result, prevIds,
                 sold, data, age, notified, posted, message, fetched, resp,
                 statFresh>>
  /\ UNCHANGED hist
  /\ UNCHANGED aside

\* line 236: json.dump(data) and close
PDump ==
  /\ pc["monitor"] = "p_dump"
  /\ prev' = data
  /\ pc' = [pc EXCEPT !["monitor"] = "m_sleep"]
  /\ UNCHANGED <<hour, enabled, outcome, readFailed, cur, kind, result, prevIds,
                 sold, data, age, notified, posted, message, fetched, resp,
                 statFresh>>
  /\ UNCHANGED hist
  /\ UNCHANGED aside

\* the cycle's locals are dead once the loop sleeps
EndCycle ==
  /\ pc' = [pc EXCEPT !["monitor"] = "loop"]
  /\ result' = [result EXCEPT !["monitor"] = NoResult]
  /\ prevIds' = [prevIds EXCEPT !["monitor"] = {}]
  /\ sold' = [sold EXCEPT !["monitor"] = <<>>]
  /\ notified' = [notified EXCEPT !["monitor"] = 0]
  /\ posted' = [posted EXCEPT !["monitor"] = 0]
  /\ message' = [message EXCEPT !["monitor"] = <<>>]
  /\ fetched' = [fetched EXCEPT !["monitor"] = FALSE]
  /\ outcome' = [outcome EXCEPT !["monitor"] = "none"]
  /\ readFailed' = readFailed \ {"monitor"}
  /\ data' = Absent
  /\ stale' = stale \ {"monitor"}
  /\ UNCHANGED <<hour, enabled, cur, prev, kind, age, resp,
                 statFresh, older, tracking>>
  /\ UNCHANGED aside

\* lines 238-239: time.sleep(SCRAPE_INTERVAL)
MSleep ==
  /\ pc["monitor"] = "m_sleep"
  /\ EndCycle
  /\ lastDone' = IF tracking = "done" /\ ScrapedAndWrote("monitor")
                 THEN File(result["monitor"]) ELSE lastDone

\* lines 241-243: any exception of the cycle is logged; time.sleep(60)
MBackoff ==
  /\ pc["monitor"] = "m_backoff"
  /\ EndCycle
  /\ UNCHANGED lastDone

\* ------------------------------------------------------- request thread
\* a request arrives
Request ==
  /\ pc["api"] = "idle"
  /\ \E k \in Kinds :
       /\ kind' = k
       /\ pc' = [pc EXCEPT !["api"] =
                   IF k = "inventory" THEN "i_stat"
                   ELSE IF k = "force" THEN "s_gate" ELSE "st_read"]
  /\ UNCHANGED <<hour, enabled, outcome, readFailed, cur, prev, result, prevIds,
                 sold, data, age, notified, posted, message, fetched, resp,
                 statFresh>>
  /\ UNCHANGED hist
  /\ UNCHANGED aside

\* get_inventory, lines 271-273: the file exists and is young
IStat ==
  /\ pc["api"] = "i_stat"
  /\ \E a \in Ages :
       /\ IF cur.state # "absent" /\ IsFresh(a)
          THEN /\ age' = a
               /\ pc' = [pc EXCEPT !["api"] = "i_read"]
          ELSE /\ age' = age
               /\ pc' = [pc EXCEPT !["api"] = "s_gate"]
       /\ statFresh' = (cur.state = "ok" /\ a < FRESH_SECONDS)
  /\ UNCHANGED <<hour, enabled, outcome, readFailed, cur, prev, kind, result, prevIds,
                 sold, data, notified, posted, message, fetched, resp>>
  /\ UNCHANGED hist
  /\ UNCHANGED aside

\* get_inventory, lines 274-278 and 284-285: answer from the file
IRead ==
  /\ pc["api"] = "i_read"
  /\ IF cur.state = "ok"
     THEN /\ resp' = [ResultBody(CachedResult(cur)) EXCEPT
                        !.note = FALSE, !.from_cache = TRUE,
                        !.cache_age = age]
          /\ pc' = [pc EXCEPT !["api"] = "done"]
     ELSE /\ Raise("api")
  /\ UNCHANGED <<hour, enabled, outcome, readFailed, cur, prev, kind, result, prevIds,
                 sold, data, age, notified, posted, message, fetched,
                 statFresh>>
  /\ UNCHANGED hist
  /\ UNCHANGED aside

\* get_inventory, line 282: answer with the scrape's result
IReturn ==
  /\ pc["api"] = "i_return"
  /\ resp' = ResultBody(result["api"])
  /\ pc' = [pc EXCEPT !["api"] = "done"]
  /\ UNCHANGED <<hour, enabled, outcome, readFailed, cur, prev, kind, result, prevIds,
                 sold, data, age, notified, posted, message, fetched,
                 statFresh>>
  /\ UNCHANGED hist
  /\ UNCHANGED aside

\* force_check, lines 334-338
FReturn ==
  /\ pc["api"] = "f_return"
  /\ resp' = [ResultBody(result["api"]) EXCEPT
                !.sold = sold["api"],
                !.notification_sent = NotificationSent(sold["api"])]
  /\ pc' = [pc EXCEPT !["api"] = "done"]
  /\ UNCHANGED <<hour, enabled, outcome, readFailed, cur, prev, kind, result, prevIds,
                 sold, data, age, notified, posted, message, fetched,
                 statFresh>>
  /\ UNCHANGED hist
  /\ UNCHANGED aside

\* get_status, lines 300-311: a failed load only leaves the fields out
StRead ==
  /\ pc["api"] = "st_read"
  /\ resp' = IF cur.state = "ok"
             THEN [NoResp EXCEPT !.status = 200, !.success = TRUE, !.ids = cur.ids]
             ELSE [NoResp EXCEPT !.status = 200]
  /\ pc' = [pc EXCEPT !["api"] = "done"]
  /\ UNCHANGED <<hour, enabled, outcome, readFailed, cur, prev, kind, result, prevIds,
                 sold, data, age, notified, posted, message, fetched,
                 statFresh>>
  /\ UNCHANGED hist
  /\ UNCHANGED aside

\* the response is sent and the handler's locals are gone
Respond ==
  /\ pc["api"] = "done"
  /\ pc' = [pc EXCEPT !["api"] = "idle"]
  /\ kind' = "inventory"
  /\ result' = [result EXCEPT !["api"] = NoResult]
  /\ prevIds' = [prevIds EXCEPT !["api"] = {}]
  /\ sold' = [sold EXCEPT !["api"] = <<>>]
  /\ notified' = [notified EXCEPT !["api"] = 0]
  /\ posted' = [posted EXCEPT !["api"] = 0]
  /\ message' = [message EXCEPT !["api"] = <<>>]
  /\ fetched' = [fetched EXCEPT !["api"] = FALSE]
  /\ outcome' = [outcome EXCEPT !["api"] = "none"]
  /\ readFailed' = readFailed \ {"api"}
  /\ age' = -1
  /\ statFresh' = FALSE
  /\ resp' = NoResp
  /\ stale' = stale \ {"api"}
  /\ lastDone' = IF tracking = "done" /\ ScrapedAndWrote("api") /\ resp.status = 200
                 THEN File(result["api"]) ELSE lastDone
  /\ UNCHANGED <<hour, enabled, cur, prev, data, older, tracking>>
  /\ UNCHANGED aside

\* ------------------------------------------------------------------ Next
Scrape(p) == SGate(p) \/ SCached(p) \/ SFetch(p) \/ SOpen(p) \/ SDump(p)
Diff(p) == DPrev(p) \/ DCur(p)

Next ==
  \/ AdvanceHour
  \/ \E p \in Procs : Scrape(p)
  \/ \E p \in Procs : Diff(p)
  \/ \E p \in Procs : Notify(p)
  \/ MGate
  \/ MQuietSleep
  \/ MCheck
  \/ PRead
  \/ POpen
  \/ PDump
  \/ MSleep
  \/ MBackoff
  \/ Request
  \/ IStat
  \/ IRead
  \/ IReturn
  \/ FReturn
  \/ StRead
  \/ Respond

Spec == Init /\ [][Next]_vars

\* the two gate checks (line 197 and line 57) under a clock that runs through
\* the whole day
NextGate ==
  \/ Tick
  \/ MGate
  \/ MQuietSleep
  \/ Request
  \/ \E p \in Procs : SGate(p)

SpecGate == InitGate /\ [][NextGate]_vars

\* one browser session of the monitor, step by step through its pagination
\* loop
NextPaginate ==
  \/ MGate
  \/ MQuietSleep
  \/ \E p \in Procs : SGate(p)
  \/ Request
  \/ \E p \in Procs : PEnter(p)
  \/ PTest
  \/ PVisible
  \/ PClick
  \/ PFinal

SpecPaginate == Init /\ [][NextPaginate]_vars

\* the same program, recording the history a statement about it refers to
SpecDone == InitDone /\ [][Next]_vars
SpecOrder == InitOrder /\ [][Next]_vars

\* a step of the monitor thread
MonitorStep ==
  \/ Scrape("monitor")
  \/ Diff("monitor")
  \/ Notify("monitor")
  \/ MGate
  \/ MQuietSleep
  \/ MCheck
  \/ PRead
  \/ POpen
  \/ PDump
  \/ MSleep
  \/ MBackoff

\* the monitor thread is scheduled again and again, and each of its calls
\* returns or raises: the sleeps are finite, requests.post has timeout=10,
\* the browser calls have Playwright's default timeouts
SpecLive == Init /\ [][Next]_vars /\ WF_vars(MonitorStep)
SpecFail == InitFail /\ [][Next]_vars

\* ================================================================ claims
DiffPcs == {"d_prev", "d_cur"}
PromotePcs == {"p_open", "p_dump"}

\* thread p takes a step
Steps(p) == pc'[p] # pc[p]

\* ---------------------------------------------------------------- C1
\* C1: whenever a cycle computes its diff, `previous` is absent or
\* is the snapshot written as `current` by the latest completed cycle whose
\* scrape succeeded, whichever thread ran it.
C1_PreviousIsPrecedingCurrent ==
  \A p \in Procs : pc[p] \in DiffPcs => (prev = Absent \/ prev = lastDone)

\* ---------------------------------------------------------------- C2
\* C2: the monitor's cycle and a request's cycle are serialized: no thread
\* writes to `current` a result older than the one a concurrent cycle has
\* already written, and the promote step copies the `current` that its own
\* cycle's scrape returned.
C2_StoreAccessSerialized ==
  /\ \A p \in stale : Unwritten(p)
  /\ pc["monitor"] \in PromotePcs => data = File(result["monitor"])

\* ---------------------------------------------------------------- C3
\* thread p is about to load a file that is open for writing and not written
LoadsTorn(p) ==
  \/ pc[p] \in {"s_cached", "d_cur", "p_read", "i_read", "st_read"}
       /\ cur.state = "torn"
  \/ pc[p] = "d_prev" /\ prev.state = "torn"

\* C3: no reader (inventory, status, diff step, promote step) ever loads a
\* snapshot file that is empty or partly written.
C3_WritesAtomic == [][\A p \in Procs : Steps(p) => ~LoadsTorn(p)]_vars

\* ---------------------------------------------------------------- C4
\* C4: the diff step reads the identifiers of the persisted `previous`, and
\* from a complete `current` it returns exactly those of them that `current`
\* does not hold, each once, so nothing when the two hold the same
\* identifiers; neither of its two steps changes a stored snapshot.
C4_DiffIsSetDifference ==
  [][\A p \in Procs :
       /\ (pc[p] = "d_prev" /\ Steps(p)) =>
            /\ cur' = cur /\ prev' = prev
            /\ prev.state = "ok" => prevIds'[p] = ToSet(prev.ids)
       /\ (pc[p] = "d_cur" /\ Steps(p)) =>
            /\ cur' = cur /\ prev' = prev
            /\ cur.state = "ok" =>
                 /\ ToSet(sold'[p]) =
                      {i \in Ids : i \in prevIds[p] /\ i \notin ToSet(cur.ids)}
                 /\ Len(sold'[p]) = Cardinality(ToSet(sold'[p]))
                 /\ prevIds[p] = ToSet(cur.ids) => sold'[p] = <<>>]_vars

\* a diff of two complete snapshots has found a sold identifier
C4_Witness ==
  \E p \in Procs :
    /\ pc[p] = "notify"
    /\ prev.state = "ok" /\ cur.state = "ok"
    /\ sold[p] # <<>>
    /\ ToSet(sold[p]) = ToSet(prev.ids) \ ToSet(cur.ids)

\* ---------------------------------------------------------------- C5
\* C5: as long as `previous` is absent every diff has returned the empty
\* list and no cycle or request has called the notifier or posted to the
\* webhook, whatever `current` holds.
C5_NoBaselineNoSales ==
  prev = Absent =>
    \A p \in Procs : sold[p] = <<>> /\ notified[p] = 0 /\ posted[p] = 0

\* the first successful monitor cycle has passed its diff and its notify step
\* with identifiers in `current`, and a first force-check likewise
C5_Witness ==
  /\ prev = Absent
  /\ cur.state = "ok" /\ cur.ids # <<>>
  /\ pc["monitor"] = "p_read" /\ result["monitor"].success
  /\ pc["api"] = "f_return" /\ result["api"].success

\* ---------------------------------------------------------------- C6
\* C6: every answered force-check has launched the browser, and its result
\* is never the persisted snapshot standing in for a scrape.
C6_ForceCheckScrapes ==
  (pc["api"] = "done" /\ kind = "force" /\ resp.status = 200) =>
    (fetched["api"] /\ ~resp.note)

\* ---------------------------------------------------------------- C7
\* C7: an inventory request that found a complete `current` younger than
\* the threshold answers 200 with that snapshot marked from_cache, with
\* cache_age_seconds the age it found, and without launching the browser.
C7_FreshCacheServed ==
  (pc["api"] = "done" /\ kind = "inventory" /\ statFresh) =>
    /\ resp.status = 200
    /\ resp.success
    /\ resp.from_cache
    /\ resp.cache_age = age
    /\ ~fetched["api"]

\* ---------------------------------------------------------------- C8
\* C8: an inventory request whose scrape found the gate QUIET and no
\* `current` file returns the failure value "No cached data available" with
\* success false, answers it with status 200 rather than through the
\* exception handler, never launches the browser, and writes neither file.
C8_NoCachedDataIsAValue ==
  [][/\ (pc["api"] = "s_cached" /\ kind = "inventory" /\ cur = Absent
           /\ Steps("api")) =>
          /\ pc'["api"] = "i_return"
          /\ ~result'["api"].success
          /\ result'["api"].error = "No cached data available"
          /\ ~fetched'["api"]
          /\ cur' = Absent /\ prev' = prev
     /\ (pc["api"] = "i_return" /\ Steps("api")) =>
          /\ pc'["api"] = "done"
          /\ resp'.status = 200
          /\ resp'.success = result["api"].success
          /\ resp'.error = result["api"].error
          /\ fetched'["api"] = fetched["api"]
          /\ cur' = cur /\ prev' = prev]_vars

\* the failure value has been answered outside business hours, the store empty
C8_Witness ==
  /\ pc["api"] = "done" /\ kind = "inventory"
  /\ ~is_business_hours
  /\ cur = Absent /\ prev = Absent
  /\ resp.status = 200 /\ ~resp.success
  /\ resp.error = "No cached data available"
  /\ ~fetched["api"]

\* ---------------------------------------------------------------- C9
\* C9: a force-check whose diff returned the empty list answers
\* notification_sent = false and has neither called the notifier nor posted
\* to the webhook.
C9_NoSoldNoNotification ==
  (pc["api"] = "done" /\ kind = "force" /\ resp.status = 200
     /\ sold["api"] = <<>>) =>
    /\ resp.sold = <<>>
    /\ ~resp.notification_sent
    /\ notified["api"] = 0
    /\ posted["api"] = 0

\* a force-check that scraped and diffed against a baseline found nothing sold
C9_Witness ==
  /\ pc["api"] = "done" /\ kind = "force" /\ resp.status = 200
  /\ fetched["api"] /\ resp.success
  /\ prev.state = "ok"
  /\ sold["api"] = <<>>
  /\ ~resp.notification_sent

\* --------------------------------------------------------------- C10
AfterNotifyPcs == {"p_read", "p_open", "p_dump", "m_sleep", "m_backoff"}

C11_GateHalfOpen ==
  [][/\ (pc["monitor"] = "loop" /\ Steps("monitor")) =>
          /\ pc'["monitor"] = "s_gate" <=>
               (BUSINESS_START <= hour /\ hour < BUSINESS_END)
          /\ pc'["monitor"] = "quiet_sleep" <=>
               (hour < BUSINESS_START \/ hour >= BUSINESS_END)
          /\ (hour = 11 /\ minute = 59) => pc'["monitor"] = "quiet_sleep"
          /\ (hour = 12 /\ minute = 0) => pc'["monitor"] = "s_gate"
          /\ (hour = 18 /\ minute = 59) => pc'["monitor"] = "s_gate"
          /\ (hour = 19 /\ minute = 0) => pc'["monitor"] = "quiet_sleep"
     /\ \A p \in Procs : (pc[p] = "s_gate" /\ Steps(p)) =>
          /\ pc'[p] = "s_fetch" <=>
               (BUSINESS_START <= hour /\ hour < BUSINESS_END)
          /\ pc'[p] = "s_cached" <=>
               (hour < BUSINESS_START \/ hour >= BUSINESS_END)
          /\ (hour = 11 /\ minute = 59) => pc'[p] = "s_cached"
          /\ (hour = 12 /\ minute = 0) => pc'[p] = "s_fetch"
          /\ (hour = 18 /\ minute = 59) => pc'[p] = "s_fetch"
          /\ (hour = 19 /\ minute = 0) => pc'[p] = "s_cached"]_vars

\* at 19:00 the loop has gone to sleep and a request's scrape has taken the
\* cached branch
C11_Witness ==
  /\ hour = 19 /\ minute = 0
  /\ pc["monitor"] = "quiet_sleep"
  /\ pc["api"] = "s_cached"

\* --------------------------------------------------------------- C12
\* C12: the pagination loop never counts more than max_clicks expansions,
\* its test ends it once the count is max_clicks, it comes back to its
\* test only with the count raised by one, and the count the result reports
\* is the number of activations of the control that were performed.
C12_PaginationBounded ==
  [][/\ clicks' <= max_clicks
     /\ activated' = clicks'
     /\ (loop = "test" /\ clicks >= max_clicks /\ loop' # loop) => loop' = "final"
     /\ (loop # "test" /\ loop' = "test" /\ loop # "idle") =>
          (loop = "click" /\ clicks' = clicks + 1)
     /\ (loop = "final" /\ loop' = "closed") =>
          (clicks' = clicks /\ clicks' = activated)]_vars

\* a session whose control stayed visible has ended after max_clicks
\* activations
C12_Witness ==
  /\ loop = "closed"
  /\ clicks = max_clicks
  /\ activated = max_clicks

\* --------------------------------------------------------------- C13
\* C13: whatever becomes of the webhook call (status 204, another status,
\* an exception), the monitor's notify step goes on to the promote step
\* and changes no file, and the promote step then copies the `current` it
\* loads into `previous`.
C13_NotifyFailureSwallowed ==
  [][/\ (pc["monitor"] = "notify" /\ Steps("monitor")) =>
          /\ pc'["monitor"] = "p_read"
          /\ cur' = cur /\ prev' = prev
     /\ (pc["monitor"] = "p_read" /\ Steps("monitor") /\ cur.state = "ok") =>
          /\ pc'["monitor"] = "p_open"
          /\ data' = cur
     /\ (pc["monitor"] = "p_open" /\ Steps("monitor")) =>
          pc'["monitor"] = "p_dump"
     /\ (pc["monitor"] = "p_dump" /\ Steps("monitor")) =>
          /\ pc'["monitor"] = "m_sleep"
          /\ prev' = data]_vars

\* a cycle whose webhook call failed has promoted
C13_Witness ==
  /\ pc["monitor"] = "m_sleep"
  /\ notified["monitor"] = 1 /\ posted["monitor"] = 1
  /\ outcome["monitor"] \in {"status", "exception"}
  /\ prev.state = "ok" /\ prev = data

\* --------------------------------------------------------------- C14
ScrapePcs == {"s_cached", "s_fetch", "s_dump"}

\* C14: in a monitor cycle the diff starts only when the scrape has
\* returned success, the notify step only after the diff, the promote step
\* only after the notify step; `previous` changes only in the promote step
\* of a monitor cycle whose scrape returned success, and never in a step of
\* a request.
C14_CycleOrder ==
  [][/\ (Steps("monitor") /\ pc'["monitor"] = "m_check") =>
          pc["monitor"] \in ScrapePcs
     /\ (Steps("monitor") /\ pc'["monitor"] = "d_prev") =>
          (pc["monitor"] = "m_check" /\ result["monitor"].success)
     /\ (Steps("monitor") /\ pc'["monitor"] = "notify") =>
          pc["monitor"] \in DiffPcs
     /\ (Steps("monitor") /\ pc'["monitor"] = "p_read") =>
          pc["monitor"] = "notify"
     /\ (Steps("monitor") /\ pc'["monitor"] = "p_open") =>
          pc["monitor"] = "p_read"
     /\ prev' # prev =>
          /\ Steps("monitor") /\ ~Steps("api")
          /\ pc["monitor"] \in PromotePcs
          /\ result["monitor"].success
          /\ notified["monitor"] = (IF sold["monitor"] = <<>> THEN 0 ELSE 1)]_vars

\* a cycle has scraped, found a sale, notified and promoted its snapshot
C14_Witness ==
  /\ pc["monitor"] = "m_sleep"
  /\ fetched["monitor"] /\ result["monitor"].success
  /\ sold["monitor"] # <<>> /\ notified["monitor"] = 1
  /\ prev = File(result["monitor"])

\* --------------------------------------------------------------- C15
\* C15: the monitor thread comes back to the gate check at the top of its
\* loop again and again, whatever happens in a cycle; in particular it
\* does so after the backoff sleep that follows an exception.
C15_LoopNeverEnds == []<>(pc["monitor"] = "loop")

\* an exception of a cycle has been caught and the loop is in its backoff
C15_Witness == pc["monitor"] = "m_backoff"

\* --------------------------------------------------------------- C16
\* C16: when the monitor's browser session fails, the scrape returns a
\* failure value at once and changes neither file; the cycle then goes from
\* the success test straight to its sleep, launches no second session, and
\* while it holds the failed result it has not diffed, notified or begun to
\* promote.
C16_FailedFetchAbortsCycle ==
  [][/\ (pc["monitor"] = "s_fetch" /\ Steps("monitor")
           /\ ~result'["monitor"].success) =>
          /\ pc'["monitor"] = "m_check"
          /\ cur' = cur /\ prev' = prev
     /\ (fetched["monitor"] /\ ~result["monitor"].success
           /\ pc["monitor"] = "m_check") =>
          /\ notified["monitor"] = 0 /\ posted["monitor"] = 0
          /\ sold["monitor"] = <<>>
          /\ Steps("monitor") =>
               (pc'["monitor"] = "m_sleep" /\ cur' = cur /\ prev' = prev)
     /\ (fetched["monitor"] /\ ~result["monitor"].success
           /\ pc["monitor"] = "m_sleep") =>
          /\ notified["monitor"] = 0 /\ posted["monitor"] = 0
          /\ Steps("monitor") =>
               (pc'["monitor"] = "loop" /\ cur' = cur /\ prev' = prev)
     /\ (pc["monitor"] \in DiffPcs \cup {"notify", "p_read"} \cup PromotePcs) =>
          result["monitor"].success]_vars

\* a failed session at the end of its cycle, both files still holding the
\* snapshot of the cycle before
C16_Witness ==
  /\ pc["monitor"] = "m_sleep"
  /\ fetched["monitor"] /\ ~result["monitor"].success
  /\ cur.state = "ok" /\ cur.ids # <<>> /\ prev = cur
  /\ notified["monitor"] = 0

\* --------------------------------------------------------------- C17
\* thread p is the monitor or serves GET /api/inventory
GatedThread(p) == p = "monitor" \/ kind = "inventory"

\* C17: a loop iteration that finds the gate closed only sleeps and looks
\* at the gate again; a scrape of the monitor or of GET /api/inventory that
\* finds the gate closed launches no browser and writes no file, and the
\* cycle or request it belongs to writes neither `current` nor `previous`
\* afterwards.
C17_QuietWritesNothing ==
  [][/\ (pc["monitor"] = "loop" /\ ~is_business_hours /\ Steps("monitor")) =>
          (pc'["monitor"] = "quiet_sleep" /\ cur' = cur /\ prev' = prev)
     /\ (pc["monitor"] = "quiet_sleep" /\ Steps("monitor")) =>
          (pc'["monitor"] = "loop" /\ cur' = cur /\ prev' = prev)
     /\ \A p \in Procs :
          /\ (GatedThread(p) /\ pc[p] = "s_gate" /\ ~is_business_hours
                /\ Steps(p)) =>
               pc'[p] = "s_cached"
          /\ (GatedThread(p) /\ pc[p] = "s_cached" /\ Steps(p)) =>
               (fetched'[p] = fetched[p] /\ cur' = cur /\ prev' = prev)
          /\ (GatedThread(p) /\ result[p].note /\ Steps(p)) =>
               (fetched'[p] = fetched[p] /\ cur' = cur /\ prev' = prev)]_vars

\* --------------------------------------------------------------- C18
\* C18: a monitor cycle whose diff step failed to load a snapshot does not
\* go on to promote, and a force-check whose diff step failed to load a
\* snapshot does not answer 200.
C18_DiffReadFailureSurfaces ==
  /\ "monitor" \in readFailed =>
       pc["monitor"] \notin {"p_read", "p_open", "p_dump"}
  /\ ("api" \in readFailed /\ pc["api"] = "done") => resp.status # 200

\* --------------------------------------------------------------- C19
\* C19: when the promote step replaces a present `previous`, every
\* identifier of the old `previous` that the new one lacks is in the sold
\* list the same cycle computed.
C19_NoSaleLost ==
  [][(pc["monitor"] = "p_open" /\ Steps("monitor") /\ prev.state = "ok") =>
       (ToSet(prev.ids) \ ToSet(data.ids)) \subseteq ToSet(sold["monitor"])]_vars

\* --------------------------------------------------------------- C20
\* C20: a force-check response with notification_sent = true comes from a
\* request that posted to the webhook; with notifications disabled
\* notification_sent is false.
C20_SentMeansPosted ==
  (pc["api"] = "done" /\ kind = "force" /\ resp.status = 200) =>
    /\ resp.notification_sent => posted["api"] >= 1
    /\ ~enabled => ~resp.notification_sent

====
